---- MODULE Spec2Model ----
(***************************************************************************)
(* A model of the essentiality pipeline of ccal                            *)
(* (src/ccal/computational_cancer_biology/imv.py) and of the data-frame    *)
(* helpers of src/ccal/support/d2.py.                                      *)
(*                                                                         *)
(* Each modelled function has a frame variable (a record holding its       *)
(* arguments, its locals, a program counter `pc` and its outcome) and its  *)
(* own specification: the arguments are drawn by the initial predicate,    *)
(* the actions are the steps of the function body.                         *)
(*                                                                         *)
(* A pandas DataFrame is a record [index, columns, values]: the row        *)
(* labels, the column labels and the rows by POSITION, as pandas stores    *)
(* them.  Floating point numbers are exact rationals <<num, den>> with     *)
(* den > 0, in lowest terms; NaN is <<0, 0>>.                              *)
(***************************************************************************)
EXTENDS Integers, Sequences, FiniteSets, TLC

VARIABLES
    sd,     \* frame of split_dataframe          (d2.py)
    gamd,   \* frame of get_amp_mut_del          (imv.py)
    fe,     \* frame of fit_essentiality         (imv.py)
    mem,    \* frame of make_essentiality_matrix (imv.py)
    gtbi    \* frame of get_top_and_bottom_indices (d2.py)

vars == <<sd, gamd, fe, mem, gtbi>>

\* A frame of a function that is not running in the specification at hand.
Idle == [pc |-> "idle"]

(***************************************************************************)
(* Bounds of the model.                                                    *)
(***************************************************************************)
MaxSplitRows == 5

(***************************************************************************)
(* Generic helpers on sequences.                                           *)
(***************************************************************************)
Range(s) == {s[i] : i \in DOMAIN s}

IsInjective(s) == \A i, j \in DOMAIN s : s[i] = s[j] => i = j

\* Python's s[a:b] on positions 0..Len(s)-1, for 0 <= a.
Slice(s, a, b) ==
    LET hi == IF b > Len(s) THEN Len(s) ELSE b
    IN  IF a >= hi THEN <<>> ELSE [k \in 1..(hi - a) |-> s[a + k]]

\* The function a on 1..n as an array: the entries are computed once.
Array(a) == a \o <<>>

RECURSIVE Concat(_)
Concat(ss) == IF ss = <<>> THEN <<>> ELSE Head(ss) \o Concat(Tail(ss))

(***************************************************************************)
(* Floating point numbers: exact rationals <<num, den>>, den > 0, in       *)
(* lowest terms; NaN is <<0, 0>> and propagates through the arithmetic     *)
(* the way an IEEE NaN does.                                               *)
(***************************************************************************)
NaN == <<0, 0>>

IsNaN(x) == x[2] = 0

Abs(n) == IF n < 0 THEN -n ELSE n

RECURSIVE GCD(_, _)
GCD(a, b) == IF b = 0 THEN a ELSE GCD(b, a % b)

\* The rational n/d in lowest terms (d # 0).
Q(n, d) ==
    LET g == GCD(Abs(n), Abs(d))
        s == IF d < 0 THEN -1 ELSE 1
    IN  <<(s * n) \div g, (s * d) \div g>>

\* An integer as a float.
F(n) == <<n, 1>>

\* IEEE arithmetic and comparison: NaN propagates, and compares false.
FAdd(x, y) == IF IsNaN(x) \/ IsNaN(y) THEN NaN
              ELSE Q(x[1] * y[2] + y[1] * x[2], x[2] * y[2])

FNeg(x) == IF IsNaN(x) THEN NaN ELSE <<-x[1], x[2]>>

FSub(x, y) == FAdd(x, FNeg(y))

FMul(x, y) == IF IsNaN(x) \/ IsNaN(y) THEN NaN
              ELSE Q(x[1] * y[1], x[2] * y[2])

\* x / y; 0 / 0 is NaN.  (No other division by zero occurs in the model.)
FDiv(x, y) == IF IsNaN(x) \/ IsNaN(y) \/ y[1] = 0 THEN NaN
              ELSE Q(x[1] * y[2], x[2] * y[1])

FAbs(x) == IF IsNaN(x) THEN NaN ELSE <<Abs(x[1]), x[2]>>

FLess(x, y) == ~IsNaN(x) /\ ~IsNaN(y) /\ x[1] * y[2] < y[1] * x[2]

(***************************************************************************)
(* get_amp_mut_del(gene_x_samples, gene)              imv.py, lines 318-352 *)
(*                                                                         *)
(* A row label "{gene}_{SUFFIX}" is the pair <<gene, SUFFIX>>.  A Series   *)
(* is an object: `null` is ONE object on the heap, and the locals          *)
(* amplifications, mutations and deletions hold either a reference to it   *)
(* or a row read from the table.                                           *)
(***************************************************************************)
NIndicatorSamples == 2

Genes == {"G", "H"}

Suffixes == <<"AMP", "MUT", "DEL">>

\* '{}_AMP'.format(gene)
RowName(gene, suffix) == <<gene, suffix>>

IndicatorValues == {F(0), F(1)}

IndicatorRows == [1..NIndicatorSamples -> IndicatorValues]

\* Series(index=gene_x_samples.columns): no data, so every entry is NaN,
\* and no name.
NullSeries(columns) == [name |-> <<>>, values |-> [c \in DOMAIN columns |-> NaN]]

\* gene_x_samples.ix[label, :] : the row, or KeyError when the label is not
\* in the index.
HasRow(frame, label) == \E p \in DOMAIN frame.index : frame.index[p] = label

RowOf(frame, label) ==
    frame.values[CHOOSE p \in DOMAIN frame.index : frame.index[p] = label]

\* The indicator tables: any subset of the rows of the two genes, each row
\* 0/1 valued, in a fixed order of the labels.
AllRowNames ==
    <<RowName("G", "AMP"), RowName("G", "MUT"), RowName("G", "DEL"),
      RowName("H", "AMP")>>

IndicatorTables ==
    UNION {
      LET idx == SelectSeq(AllRowNames, LAMBDA l : l \in present)
      IN  {[index   |-> idx,
            columns |-> [c \in 1..NIndicatorSamples |-> c],
            values  |-> v] : v \in [DOMAIN idx -> IndicatorRows]}
      : present \in SUBSET Range(AllRowNames)}

\* The object a local refers to: the shared null Series, or its own row.
Deref(frame, ref) == IF ref.null THEN frame.null ELSE ref.row

\* One try/except block (lines 329-334, 337-342, 345-350): the row when the
\* table has it; otherwise the local is bound to `null` and the name of that
\* object is set.
LookupRow(frame, suffix) ==
    LET label == RowName(frame.gene, suffix)
    IN  IF HasRow(frame.gene_x_samples, label)
        THEN [frame EXCEPT
                !.locals = Append(@, [null |-> FALSE,
                                      row  |-> [name   |-> label,
                                                values |-> RowOf(frame.gene_x_samples, label)]])]
        ELSE [frame EXCEPT
                !.locals = Append(@, [null |-> TRUE, row |-> <<>>]),
                !.null.name = label]

GamdInit ==
    /\ \E t \in IndicatorTables, g \in Genes :
          gamd = [pc             |-> "null",
                  gene_x_samples |-> t,
                  gene           |-> g,
                  null           |-> <<>>,
                  locals         |-> <<>>,
                  result         |-> <<>>,
                  outcome        |-> "running"]
    /\ sd = Idle /\ fe = Idle /\ mem = Idle /\ gtbi = Idle

\* line 326
GamdNull ==
    /\ gamd.pc = "null"
    /\ gamd' = [gamd EXCEPT !.null = NullSeries(gamd.gene_x_samples.columns),
                            !.pc = "lookup"]
    /\ UNCHANGED <<sd, fe, mem, gtbi>>

\* lines 328-350: the next of the three lookups, in the order AMP, MUT, DEL.
GamdLookup ==
    /\ gamd.pc = "lookup"
    /\ Len(gamd.locals) < Len(Suffixes)
    /\ gamd' = LookupRow(gamd, Suffixes[Len(gamd.locals) + 1])
    /\ UNCHANGED <<sd, fe, mem, gtbi>>

\* line 352: concat([amplifications, mutations, deletions], axis=1).T : one
\* row per Series, labelled with the name the Series has NOW.
GamdConcat ==
    /\ gamd.pc = "lookup"
    /\ Len(gamd.locals) = Len(Suffixes)
    /\ LET series == [k \in DOMAIN gamd.locals |-> Deref(gamd, gamd.locals[k])]
       IN  gamd' = [gamd EXCEPT
                      !.result = [index   |-> [k \in DOMAIN series |-> series[k].name],
                                  columns |-> gamd.gene_x_samples.columns,
                                  values  |-> [k \in DOMAIN series |-> series[k].values]],
                      !.pc = "done",
                      !.outcome = "returned"]
    /\ UNCHANGED <<sd, fe, mem, gtbi>>

GamdNext == GamdNull \/ GamdLookup \/ GamdConcat

SpecLookup == GamdInit /\ [][GamdNext]_vars

(***************************************************************************)
(* C5: get_amp_mut_del never fails and returns exactly three rows in the   *)
(* order AMP, MUT, DEL: each row present in the table equals the table's   *)
(* row, and each absent row is entirely missing-valued and named with its  *)
(* own suffix, also when two or all three rows are absent.                 *)
(***************************************************************************)
C5_LookupRowsNamedWithOwnSuffix ==
    gamd.pc = "done" =>
        /\ gamd.outcome = "returned"
        /\ Len(gamd.result.index) = 3
        /\ \A k \in 1..3 :
              LET label == RowName(gamd.gene, Suffixes[k])
              IN  /\ gamd.result.index[k] = label
                  /\ IF HasRow(gamd.gene_x_samples, label)
                     THEN gamd.result.values[k] = RowOf(gamd.gene_x_samples, label)
                     ELSE \A c \in DOMAIN gamd.result.values[k] :
                             IsNaN(gamd.result.values[k][c])

(***************************************************************************)
(* fit_essentiality(feature_x_sample, bar_df, features)                    *)
(*                                                     imv.py, lines 29-96 *)
(*                                                                         *)
(* Modelled with plot=False and directory_path=None: plotting and saving   *)
(* are collaborators of the pipeline.  Feature identifiers are integers;   *)
(* 0 is the identifier Python holds to be false.                           *)
(*                                                                         *)
(* ACSkewT_gen().fit is a library call.  Its outcome on a non-empty vector *)
(* is drawn: the fitted parameters, or an exception.  On an empty vector   *)
(* it is taken to raise, the behaviour most favourable to error reporting. *)
(***************************************************************************)
MaxFitRows == 2

NFitSamples == 2

FeatureIds == {0, 1, 2}

Shapes == {-1, 0, 1}

\* The rows of a score matrix: observed scores and missing entries.
FitRowChoices == [1..NFitSamples -> {NaN, F(1)}]

RECURSIVE SetToSortedSeq(_)
SetToSortedSeq(S) ==
    IF S = {} THEN <<>>
    ELSE LET m == CHOOSE x \in S : \A y \in S : x <= y
         IN  <<m>> \o SetToSortedSeq(S \ {m})

\* The score matrices with the given row choices and at most maxRows rows.
ScoreMatrices(rowChoices, nSamples, maxRows) ==
    UNION {
      LET idx == SetToSortedSeq(ids)
      IN  {[index   |-> idx,
            columns |-> [c \in 1..nSamples |-> c],
            values  |-> v] : v \in [DOMAIN idx -> rowChoices]}
      : ids \in {S \in SUBSET FeatureIds : Cardinality(S) <= maxRows}}

\* The `features` argument: None, a single identifier, or a list.
Selections ==
    {[kind |-> "none", ids |-> <<>>]}
    \cup {[kind |-> "scalar", ids |-> <<f>>] : f \in FeatureIds}
    \cup {[kind |-> "list", ids |-> <<>>]}
    \cup {[kind |-> "list", ids |-> <<f>>] : f \in FeatureIds}
    \cup UNION {{[kind |-> "list", ids |-> <<f, g>>] : g \in FeatureIds \ {f}}
                  : f \in FeatureIds}

\* bool(label): an identifier that Python holds to be true.
Truthy(label) == label # 0

\* bool(features), line 47: None is false, an integer is false when it is 0,
\* a list is false when it is empty.
FeaturesTruthy(features) ==
    CASE features.kind = "none"   -> FALSE
      [] features.kind = "scalar" -> Truthy(features.ids[1])
      [] features.kind = "list"   -> features.ids # <<>>

\* any(index), lines 53 and 365: some label of the index is true.
AnyIndex(index) == \E p \in DOMAIN index : Truthy(index[p])

\* frame.ix[labels, :] on an integer index: the rows in the order of
\* `labels`; a label the index does not have yields a row of NaN.
IxRows(frame, labels) ==
    [index   |-> labels,
     columns |-> frame.columns,
     values  |-> [k \in DOMAIN labels |->
                    IF HasRow(frame, labels[k])
                    THEN RowOf(frame, labels[k])
                    ELSE [c \in DOMAIN frame.columns |-> NaN]]]

\* frame.dropna(how='all'): without the rows whose entries are all NaN.
DropnaAll(frame) ==
    LET keep == SelectSeq([k \in DOMAIN frame.index |-> k],
                    LAMBDA k : \E c \in DOMAIN frame.values[k] :
                                  ~IsNaN(frame.values[k][c]))
    IN  [index   |-> [k \in DOMAIN keep |-> frame.index[keep[k]]],
         columns |-> frame.columns,
         values  |-> [k \in DOMAIN keep |-> frame.values[keep[k]]]]

\* f_v.dropna(): the observed entries of a row.
Dropna(row) == SelectSeq(row, LAMBDA x : ~IsNaN(x))

\* A row of feature_x_fit before it is assigned: DataFrame(index=..., columns=...)
Unfitted == [N |-> NaN, DF |-> NaN, Shape |-> NaN, Location |-> NaN, Scale |-> NaN]

\* What skew_t.fit can return for a vector of n observations.
FitRecords(n) ==
    {[N |-> n, DF |-> 1, Shape |-> s, Location |-> 0, Scale |-> 1] : s \in Shapes}

\* The permutations of 1..n.
Perms(n) == {p \in [1..n -> 1..n] : \A i, j \in 1..n : p[i] = p[j] => i = j}

IsSortedByShape(values) ==
    \A i, j \in DOMAIN values : i < j => values[i].Shape <= values[j].Shape

\* The table left in the order it was filled in: a fit_essentiality that
\* forgot to sort.
LeftUnsorted(table) == {table}

\* feature_x_fit.sort_values('Shape'): pandas sorts with kind='quicksort',
\* which is not stable, so the result is ANY ordering of the rows that is
\* ascending in Shape.
SortedByShape(table) ==
    {[index  |-> [k \in DOMAIN table.index |-> table.index[p[k]]],
      values |-> [k \in DOMAIN table.index |-> table.values[p[k]]]]
       : p \in {q \in Perms(Len(table.index)) :
                  IsSortedByShape([k \in DOMAIN table.index |-> table.values[q[k]]])}}

FitInit ==
    /\ \E m \in ScoreMatrices(FitRowChoices, NFitSamples, MaxFitRows),
          sel \in Selections :
          /\ m.index # <<>>
          /\ fe = [pc               |-> "select",
                   input            |-> m,
                   features         |-> sel,
                   feature_x_sample |-> m,
                   feature_x_fit    |-> <<>>,
                   i                |-> 0,
                   outcome          |-> "running"]
    /\ sd = Idle /\ gamd = Idle /\ mem = Idle /\ gtbi = Idle

\* lines 47-62: the selection of the rows, and the empty result table.
FitSelect ==
    /\ fe.pc = "select"
    /\ LET selected ==
               IF FeaturesTruthy(fe.features)
               THEN DropnaAll(IxRows(fe.feature_x_sample, fe.features.ids))
               ELSE fe.feature_x_sample
       IN  IF FeaturesTruthy(fe.features) /\ ~AnyIndex(selected.index)
           THEN fe' = [fe EXCEPT !.feature_x_sample = selected,
                                 !.pc = "done",
                                 !.outcome = "ValueError"]
           ELSE fe' = [fe EXCEPT
                         !.feature_x_sample = selected,
                         !.feature_x_fit =
                             [index  |-> selected.index,
                              values |-> [k \in DOMAIN selected.index |-> Unfitted]],
                         !.pc = "loop"]
    /\ UNCHANGED <<sd, gamd, mem, gtbi>>

\* lines 64-72: one iteration of the loop over the rows; the exception of a
\* failed fit is not caught.
FitLoop ==
    /\ fe.pc = "loop"
    /\ fe.i < Len(fe.feature_x_sample.index)
    /\ LET f_i == fe.feature_x_sample.index[fe.i + 1]
           f_v == Dropna(fe.feature_x_sample.values[fe.i + 1])
           n   == Len(f_v)
           at  == CHOOSE p \in DOMAIN fe.feature_x_fit.index :
                     fe.feature_x_fit.index[p] = f_i
       IN  \/ fe' = [fe EXCEPT !.pc = "done", !.outcome = "FitError"]
           \/ /\ n > 0
              /\ \E r \in FitRecords(n) :
                    fe' = [fe EXCEPT !.feature_x_fit.values[at] = r,
                                     !.i = @ + 1]
    /\ UNCHANGED <<sd, gamd, mem, gtbi>>

\* lines 88-96: the sort by Shape, and the return.
FitSort ==
    /\ fe.pc = "loop"
    /\ fe.i = Len(fe.feature_x_sample.index)
    /\ \E t \in SortedByShape(fe.feature_x_fit) :
          fe' = [fe EXCEPT !.feature_x_fit = t,
                           !.pc = "done",
                           !.outcome = "returned"]
    /\ UNCHANGED <<sd, gamd, mem, gtbi>>

FitNext == FitSelect \/ FitLoop \/ FitSort

SpecFit == FitInit /\ [][FitNext]_vars

\* The position of a label in an index.
Pos(index, label) == CHOOSE p \in DOMAIN index : index[p] = label

\* The identifiers a call asks to fit: those of the selection, or every row
\* of the matrix when there is no selection.
Requested(frame) ==
    IF frame.features.ids = <<>>
    THEN Range(frame.input.index)
    ELSE Range(frame.features.ids)

(***************************************************************************)
(* C3: fit_essentiality called with a non-empty selection fails with the   *)
(* selection error (ValueError) when every requested identifier is absent  *)
(* from the score matrix: no table is returned and no feature is fitted.   *)
(***************************************************************************)
C3_AbsentSelectionRaises ==
    (/\ fe.pc \in {"loop", "done"}
     /\ fe.features.ids # <<>>
     /\ \A k \in DOMAIN fe.features.ids : ~HasRow(fe.input, fe.features.ids[k]))
    => /\ fe.pc = "done"
       /\ fe.outcome = "ValueError"
       /\ fe.feature_x_fit = <<>>

(***************************************************************************)
(* C4 as claimed: the returned table is ordered by Shape ascending and the *)
(* ordering is stable: two features with equal Shape appear in the same    *)
(* relative order as in the input matrix.                                  *)
(***************************************************************************)
C4_SortedAndStable ==
    (fe.pc = "done" /\ fe.outcome = "returned") =>
        /\ IsSortedByShape(fe.feature_x_fit.values)
        /\ \A i, j \in DOMAIN fe.feature_x_fit.index :
              (i < j /\ fe.feature_x_fit.values[i].Shape = fe.feature_x_fit.values[j].Shape)
              => Pos(fe.input.index, fe.feature_x_fit.index[i])
                   < Pos(fe.input.index, fe.feature_x_fit.index[j])

(***************************************************************************)
(* C4 as amended: the returned table holds one row for each fitted feature *)
(* and is ordered by Shape ascending; the relative order of features with  *)
(* equal Shape is not determined.                                          *)
(***************************************************************************)
C4_SortedByShapeAscending ==
    (fe.pc = "done" /\ fe.outcome = "returned") =>
        /\ IsSortedByShape(fe.feature_x_fit.values)
        /\ IsInjective(fe.feature_x_fit.index)
        /\ Range(fe.feature_x_fit.index) = Range(fe.feature_x_sample.index)

\* A returned table whose rows the sort had to exchange: the feature with the
\* smaller Shape came later in the matrix.
C4_Witness ==
    /\ fe.pc = "done" /\ fe.outcome = "returned"
    /\ Len(fe.feature_x_fit.index) >= 2
    /\ fe.feature_x_fit.values[1].Shape < fe.feature_x_fit.values[2].Shape
    /\ Pos(fe.feature_x_sample.index, fe.feature_x_fit.index[1])
         > Pos(fe.feature_x_sample.index, fe.feature_x_fit.index[2])

(***************************************************************************)
(* C9: if fitting any requested feature fails (its vector is empty after   *)
(* dropping the missing entries, or the fit raises), the whole call of     *)
(* fit_essentiality fails: no table is returned.                           *)
(***************************************************************************)
C9_EmptyVectorFailsTheCall ==
    (/\ fe.pc = "done"
     /\ \E f \in Requested(fe) :
           HasRow(fe.input, f) /\ Dropna(RowOf(fe.input, f)) = <<>>)
    => fe.outcome # "returned"

(***************************************************************************)
(* C12: fit_essentiality called with a non-empty selection in which some   *)
(* requested identifier is a row of the score matrix does not raise the    *)
(* selection error (ValueError), and the returned table holds one record   *)
(* for each requested identifier that is a row of the matrix, whatever the *)
(* identifier's value: also for the identifier 0.  Rows without an         *)
(* observed entry are left out of the statement; they are the case of C9.  *)
(***************************************************************************)
C12_PresentSelectionIsFitted ==
    LET ids       == fe.features.ids
        present   == {f \in Range(ids) :
                        /\ HasRow(fe.input, f)
                        /\ Dropna(RowOf(fe.input, f)) # <<>>}
    IN  (fe.pc = "done" /\ fe.features.kind # "none" /\ present # {})
        => /\ fe.outcome # "ValueError"
           /\ fe.outcome = "returned"
              => \A f \in present :
                    /\ Cardinality({p \in DOMAIN fe.feature_x_fit.index :
                                      fe.feature_x_fit.index[p] = f}) = 1
                    /\ fe.feature_x_fit.values[Pos(fe.feature_x_fit.index, f)]
                         \in FitRecords(Len(Dropna(RowOf(fe.input, f))))

(***************************************************************************)
(* make_essentiality_matrix(feature_x_sample, feature_x_fit, n_x_grids,    *)
(* factor)                                           imv.py, lines 355-392 *)
(***************************************************************************)
MaxBuildRows == 2

MaxXGrids == 3

Factors == {1, 2}

\* The rows of the score matrices: three samples; observed scores that lie
\* on a grid point and half-way between two, a missing entry, equal scores.
BuildRowChoices ==
    {<<F(0), NaN, F(2)>>, <<F(0), F(1), F(2)>>, <<F(1), F(1), F(1)>>}

\* The rows of a fit table, as fit_essentiality writes them.
BuildFitRecords ==
    {[N |-> 3, DF |-> 1, Shape |-> s, Location |-> 1, Scale |-> 1] : s \in Shapes}

\* The fit tables of at most maxRows features, in any order of the features,
\* sorted by Shape as fit_essentiality returns them.
FitTables(maxRows) ==
    UNION {
      {[index |-> idx, values |-> v] :
          v \in {w \in [DOMAIN idx -> BuildFitRecords] : IsSortedByShape(w)}}
      : idx \in UNION {{q \in [1..k -> FeatureIds] : IsInjective(q)} : k \in 0..maxRows}}

\* numpy's min and max of an array: NaN when an entry is NaN.
RECURSIVE FMinFrom(_, _, _)
FMinFrom(a, k, m) ==
    IF k > Len(a) THEN m
    ELSE FMinFrom(a, k + 1, IF FLess(a[k], m) THEN a[k] ELSE m)

FMin(a) == IF \E k \in DOMAIN a : IsNaN(a[k]) THEN NaN ELSE FMinFrom(a, 2, a[1])

RECURSIVE FMaxFrom(_, _, _)
FMaxFrom(a, k, m) ==
    IF k > Len(a) THEN m
    ELSE FMaxFrom(a, k + 1, IF FLess(m, a[k]) THEN a[k] ELSE m)

FMax(a) == IF \E k \in DOMAIN a : IsNaN(a[k]) THEN NaN ELSE FMaxFrom(a, 2, a[1])

\* numpy.linspace(start, stop, num), num >= 2: start + i * (stop - start) / (num - 1).
Linspace(start, stop, num) ==
    Array([k \in 1..num |->
             FAdd(start, FMul(F(k - 1), FDiv(FSub(stop, start), F(num - 1))))])

\* numpy.argmin(a), as a position 1..Len(a): the scan keeps the first
\* smallest entry, and stops at the first NaN.
RECURSIVE ArgminFrom(_, _, _)
ArgminFrom(a, k, best) ==
    IF k > Len(a) \/ IsNaN(a[best]) THEN best
    ELSE ArgminFrom(a, k + 1, IF FLess(a[k], a[best]) \/ IsNaN(a[k]) THEN k ELSE best)

\* A scan that keeps the LAST smallest entry.
ArgminLast(a) ==
    CHOOSE k \in DOMAIN a :
        /\ \A j \in DOMAIN a : ~FLess(a[j], a[k])
        /\ \A j \in DOMAIN a : j > k => FLess(a[k], a[j])

Argmin(a) == ArgminFrom(a, 2, 1)

\* numpy.argmax(a): the first largest entry, or the first NaN.
RECURSIVE ArgmaxFrom(_, _, _)
ArgmaxFrom(a, k, best) ==
    IF k > Len(a) \/ IsNaN(a[best]) THEN best
    ELSE ArgmaxFrom(a, k + 1, IF FLess(a[best], a[k]) \/ IsNaN(a[k]) THEN k ELSE best)

Argmax(a) == ArgmaxFrom(a, 2, 1)

\* numpy.sign
Sign(n) == IF n > 0 THEN 1 ELSE IF n < 0 THEN -1 ELSE 0

RECURSIVE FPow(_, _)
FPow(x, e) == IF e = 0 THEN F(1) ELSE FMul(x, FPow(x, e - 1))

\* skew_t.pdf(x, df, shape, loc=location, scale=scale), a library call.  A
\* stand-in with the form of Azzalini's skew-t density for odd df,
\*     (2 / scale) * t(z) * S(shape * z),    z = (x - location) / scale,
\* with the kernel t(z) = (1 + z^2 / df) ^ -((df + 1) / 2) and the rational
\* sigmoid S(u) = (1 + |u| + u) / (2 * (1 + |u|)) in place of the t
\* distribution function.  It is positive, has one mode, and leans to the
\* side of the sign of shape.
SkewTPdf(x, df, shape, location, scale) ==
    LET z == FDiv(FSub(x, F(location)), F(scale))
        t == FPow(FDiv(F(1), FAdd(F(1), FDiv(FMul(z, z), F(df)))), (df + 1) \div 2)
        u == FMul(F(shape), z)
        S == FDiv(FAdd(FAdd(F(1), FAbs(u)), u), FMul(F(2), FAdd(F(1), FAbs(u))))
    IN  FMul(FDiv(F(2), F(scale)), FMul(t, S))

\* define_x_coordinates_for_reflection(pdf, x_grids): every grid point
\* mirrored through the grid point of the first maximum of the curve.
DefineXCoordinatesForReflection(pdf, x_grids) ==
    LET mode == x_grids[Argmax(pdf)]
    IN  Array([k \in DOMAIN x_grids |-> FSub(FMul(F(2), mode), x_grids[k])])

\* The running sum of a curve from the start of the grid up to, and without,
\* position k.
RECURSIVE CumulativeArea(_, _)
CumulativeArea(curve, k) ==
    IF k = 1 THEN F(0) ELSE FAdd(CumulativeArea(curve, k - 1), curve[k - 1])

\* define_cumulative_area_ratio_function(pdf, pdf_reference, x_grids,
\* direction): Ratio(i) = cumA(i) / (cumA(i) + cumB(i)), 0 where both
\* cumulative sums are 0; "+" reports Ratio(i), "-" reports 1 - Ratio(i).
DefineCumulativeAreaRatioFunction(pdf, pdf_reference, x_grids, direction) ==
    Array([k \in DOMAIN x_grids |->
             LET cumA  == CumulativeArea(pdf, k)
                 cumB  == CumulativeArea(pdf_reference, k)
                 ratio == IF cumA = F(0) /\ cumB = F(0) THEN F(0)
                          ELSE FDiv(cumA, FAdd(cumA, cumB))
             IN  IF direction = "+" THEN ratio ELSE FSub(F(1), ratio)])

\* The direction with the sign of Shape exchanged.
DirectionOfSign(shape) == IF shape > 0 THEN "+" ELSE "-"

\* ['+', '-'][shape > 0], lines 262 and 387: the list is indexed by the
\* truth value, so a positive Shape selects '-' and any other Shape '+'.
Direction(shape) == IF shape > 0 THEN "-" ELSE "+"

\* line 378
XGrids(vector, n_x_grids) == Linspace(FMin(vector), FMax(vector), n_x_grids)

\* lines 379-387: the essentiality indices of a feature on its grid.
EssentialityIndices(x_grids, fit) ==
    LET skew_t_pdf ==
            Array([k \in DOMAIN x_grids |->
                     SkewTPdf(x_grids[k], fit.DF, fit.Shape, fit.Location, fit.Scale)])
        x_grids_for_reflection == DefineXCoordinatesForReflection(skew_t_pdf, x_grids)
        skew_t_pdf_reflected ==
            Array([k \in DOMAIN x_grids |->
                     SkewTPdf(x_grids_for_reflection[k],
                              fit.DF, fit.Shape, fit.Location, fit.Scale)])
    IN  DefineCumulativeAreaRatioFunction(skew_t_pdf, skew_t_pdf_reflected, x_grids,
                                          Direction(fit.Shape))

\* argmin(abs(x_grids - v)), line 389
NearestGridIndex(x_grids, v) ==
    Argmin(Array([k \in DOMAIN x_grids |-> FAbs(FSub(x_grids[k], v))]))

\* lines 389-390: the grid index looked up for each entry of the row, and
\* the row of the matrix.
NearestGridIndices(vector, x_grids) ==
    Array([c \in DOMAIN vector |-> NearestGridIndex(x_grids, vector[c])])

EssentialityRow(vector, fit, x_grids, essentiality_indices, factor) ==
    LET nearest == NearestGridIndices(vector, x_grids)
    IN  Array([c \in DOMAIN vector |->
                 FMul(F(factor * Sign(fit.Shape)), essentiality_indices[nearest[c]])])

\* feature_x_sample.index & feature_x_fit.index: the labels of both, in the
\* order of the second (which is the sorted order when both are sorted).
Intersection(index, other) ==
    SelectSeq(other, LAMBDA l : \E p \in DOMAIN index : index[p] = l)

\* The score row taken by position in the matrix that was passed in.
VectorAtPosition(frame, g) ==
    frame.feature_x_sample.values[Pos(frame.gene_x_fit.index, g)]

\* gene_x_sample.ix[g, :], line 377: the score row labelled g.
VectorOf(frame, g) == RowOf(frame.gene_x_sample, g)

\* The call gives up when there is no common feature.
RaiseNoCommonFeatures(frame) ==
    [frame EXCEPT !.pc = "done", !.outcome = "NoCommonFeaturesError"]

\* lines 367-368: without a true common label the call logs, and goes on.
OnNoCommonFeatures(frame) ==
    [frame EXCEPT !.log = "No common features (indices)."]

BuildInit ==
    /\ \E m \in ScoreMatrices(BuildRowChoices, 3, MaxBuildRows),
          t \in FitTables(MaxBuildRows),
          n \in {MaxXGrids - 1, MaxXGrids},
          factor \in Factors :
          /\ m.index # <<>>
          /\ t.index # <<>>
          /\ mem =
                [pc                   |-> "common",
                 feature_x_sample     |-> m,
                 feature_x_fit        |-> t,
                 n_x_grids            |-> n,
                 factor               |-> factor,
                 common_indices       |-> <<>>,
                 log                  |-> "",
                 gene_x_sample        |-> <<>>,
                 gene_x_fit           |-> <<>>,
                 essentiality_matrix  |-> <<>>,
                 x_grids              |-> <<>>,
                 direction            |-> <<>>,
                 essentiality_indices |-> <<>>,
                 nearest              |-> <<>>,
                 i                    |-> 0,
                 result               |-> <<>>,
                 outcome              |-> "running"]
    /\ sd = Idle /\ gamd = Idle /\ fe = Idle /\ gtbi = Idle

\* lines 364-374: the common labels, the two restricted tables and the
\* uninitialised buffer.
BuildCommon ==
    /\ mem.pc = "common"
    /\ LET common == Intersection(mem.feature_x_sample.index, mem.feature_x_fit.index)
           logged == IF AnyIndex(common)
                     THEN [mem EXCEPT !.log = "Making essentiality matrix"]
                     ELSE OnNoCommonFeatures(mem)
       IN  mem' = IF logged.pc = "done" THEN logged
                  ELSE [logged EXCEPT
                          !.common_indices = common,
                          !.gene_x_sample = IxRows(mem.feature_x_sample, common),
                          !.gene_x_fit =
                              [index  |-> common,
                               values |-> [k \in DOMAIN common |->
                                             RowOf(mem.feature_x_fit, common[k])]],
                          !.essentiality_matrix = [k \in DOMAIN common |-> <<>>],
                          !.pc = "loop"]
    /\ UNCHANGED <<sd, gamd, fe, gtbi>>

\* lines 375-390: one iteration of the loop over the rows of gene_x_fit.
BuildLoop ==
    /\ mem.pc = "loop"
    /\ mem.i < Len(mem.gene_x_fit.index)
    /\ LET g       == mem.gene_x_fit.index[mem.i + 1]
           fit     == mem.gene_x_fit.values[mem.i + 1]
           vector  == VectorOf(mem, g)
           x_grids == XGrids(vector, mem.n_x_grids)
           essentiality_indices == EssentialityIndices(x_grids, fit)
       IN  mem' = [mem EXCEPT
                     !.x_grids = Append(@, x_grids),
                     !.direction = Append(@, Direction(fit.Shape)),
                     !.essentiality_indices = Append(@, essentiality_indices),
                     !.nearest = Append(@, NearestGridIndices(vector, x_grids)),
                     !.essentiality_matrix[mem.i + 1] =
                         EssentialityRow(vector, fit, x_grids, essentiality_indices,
                                         mem.factor),
                     !.i = @ + 1]
    /\ UNCHANGED <<sd, gamd, fe, gtbi>>

\* line 392
BuildReturn ==
    /\ mem.pc = "loop"
    /\ mem.i = Len(mem.gene_x_fit.index)
    /\ mem' = [mem EXCEPT
                 !.result = [index   |-> mem.gene_x_sample.index,
                             columns |-> mem.gene_x_sample.columns,
                             values  |-> mem.essentiality_matrix],
                 !.pc = "done",
                 !.outcome = "returned"]
    /\ UNCHANGED <<sd, gamd, fe, gtbi>>

BuildNext == BuildCommon \/ BuildLoop \/ BuildReturn

SpecBuild == BuildInit /\ [][BuildNext]_vars

\* The features both tables have.
CommonFeatures(frame) ==
    Range(frame.feature_x_sample.index) \cap Range(frame.feature_x_fit.index)

\* The fit record of feature g in the fit table that was passed in.
FitOf(frame, g) == RowOf(frame.feature_x_fit, g)

\* The positions of the loop that have been executed.
Processed(frame) == 1..Len(frame.x_grids)

(***************************************************************************)
(* C1 as claimed: make_essentiality_matrix fails with the no-common-       *)
(* features error whenever the two tables have no feature identifier in    *)
(* common; it never returns a matrix in that case.                         *)
(***************************************************************************)
C1_NoCommonFeaturesFails ==
    (mem.pc = "done" /\ CommonFeatures(mem) = {})
    => mem.outcome = "NoCommonFeaturesError"

(***************************************************************************)
(* C1 as amended: when the two tables have no feature identifier in        *)
(* common, make_essentiality_matrix does not fail: it logs 'No common      *)
(* features (indices).' and returns a matrix with no rows and with the     *)
(* sample columns of the score matrix.                                     *)
(***************************************************************************)
C1_NoCommonFeaturesReturnsEmptyMatrix ==
    (mem.pc \in {"loop", "done"} /\ CommonFeatures(mem) = {})
    => /\ mem.log = "No common features (indices)."
       /\ mem.outcome \in {"running", "returned"}
       /\ mem.pc = "done" =>
             /\ mem.outcome = "returned"
             /\ mem.result.index = <<>>
             /\ mem.result.values = <<>>
             /\ mem.result.columns = mem.feature_x_sample.columns

\* A finished call on two non-empty tables without a common feature.
C1_Witness ==
    /\ mem.pc = "done"
    /\ mem.feature_x_sample.index # <<>>
    /\ mem.feature_x_fit.index # <<>>
    /\ CommonFeatures(mem) = {}

(***************************************************************************)
(* C2 as claimed: for every common feature the essentiality-index curve is *)
(* computed with the direction of the sign of Shape: "+" for a positive    *)
(* Shape and "-" for a negative Shape.                                     *)
(***************************************************************************)
C2_DirectionIsSignOfShape ==
    \A k \in Processed(mem) :
        LET shape == FitOf(mem, mem.gene_x_fit.index[k]).Shape
        IN  /\ shape > 0 => mem.direction[k] = "+"
            /\ shape < 0 => mem.direction[k] = "-"

(***************************************************************************)
(* C2 as amended: for every common feature the curve is computed with      *)
(* direction "-" (1 - Ratio(i) reported, 1 at the first grid point) when    *)
(* Shape is positive and with direction "+" (Ratio(i) reported, 0 at the    *)
(* first grid point) when Shape is zero or negative.                       *)
(***************************************************************************)
C2_DirectionOpposesSignOfShape ==
    \A k \in Processed(mem) :
        LET shape == FitOf(mem, mem.gene_x_fit.index[k]).Shape
            first == mem.essentiality_indices[k][1]
        IN  /\ mem.direction[k] = IF shape > 0 THEN "-" ELSE "+"
            /\ ~IsNaN(first) => first = IF shape > 0 THEN F(1) ELSE F(0)

\* A finished call that computed the curve of a feature of positive Shape
\* and of a feature of negative Shape, both on a grid of numbers.
C2_Witness ==
    /\ mem.pc = "done"
    /\ \E k, j \in Processed(mem) :
          /\ FitOf(mem, mem.gene_x_fit.index[k]).Shape > 0
          /\ FitOf(mem, mem.gene_x_fit.index[j]).Shape < 0
          /\ ~IsNaN(mem.essentiality_indices[k][1])
          /\ ~IsNaN(mem.essentiality_indices[j][1])

\* The distances of the grid points to v.
Distances(x_grids, v) == [i \in DOMAIN x_grids |-> FAbs(FSub(x_grids[i], v))]

\* i is a grid index whose distance to v no grid point undercuts.
IsNearest(x_grids, v, i) ==
    \A j \in DOMAIN x_grids : ~FLess(Distances(x_grids, v)[j], Distances(x_grids, v)[i])

(***************************************************************************)
(* C6: every output cell of a feature for an observed sample value v is    *)
(* scaleFactor x sign(Shape) x EssentialityIndexCurve[k], where k is the   *)
(* lowest grid index minimizing |grid[i] - v|; when v equals a grid point, *)
(* k is the index of a grid point equal to v.                              *)
(***************************************************************************)
C6_CellIsCurveAtLowestNearestIndex ==
    \A k \in Processed(mem) :
        LET g      == mem.gene_x_fit.index[k]
            vector == RowOf(mem.feature_x_sample, g)
            grid   == mem.x_grids[k]
        IN  \A c \in DOMAIN vector :
               ~IsNaN(vector[c]) =>
                   LET i == mem.nearest[k][c]
                   IN  /\ IsNearest(grid, vector[c], i)
                       /\ \A j \in 1..(i - 1) : ~IsNearest(grid, vector[c], j)
                       /\ (\E j \in DOMAIN grid : grid[j] = vector[c]) => grid[i] = vector[c]
                       /\ mem.essentiality_matrix[k][c]
                            = FMul(F(mem.factor * Sign(FitOf(mem, g).Shape)),
                                   mem.essentiality_indices[k][i])

\* A finished call with an observed value half-way between two grid points,
\* and an observed value on an inner grid point.
C6_Witness ==
    /\ mem.pc = "done"
    /\ \E k \in Processed(mem) :
          LET vector == RowOf(mem.feature_x_sample, mem.gene_x_fit.index[k])
              grid   == mem.x_grids[k]
          IN  /\ mem.factor > 1
              /\ FitOf(mem, mem.gene_x_fit.index[k]).Shape < 0
              /\ \E c \in DOMAIN vector :
                    /\ ~IsNaN(vector[c])
                    /\ \E i, j \in DOMAIN grid :
                          /\ i < j
                          /\ FLess(grid[i], grid[j])
                          /\ IsNearest(grid, vector[c], i)
                          /\ IsNearest(grid, vector[c], j)

(***************************************************************************)
(* C7: the returned matrix has as row keys exactly the feature identifiers *)
(* of both tables, as column keys the sample identifiers of the score      *)
(* matrix, and the row labelled g is computed from the score row of g and  *)
(* the fit record of g.                                                    *)
(***************************************************************************)
C7_RowsKeyedByCommonFeatures ==
    (mem.pc = "done" /\ mem.outcome = "returned") =>
        /\ IsInjective(mem.result.index)
        /\ Range(mem.result.index) = CommonFeatures(mem)
        /\ mem.result.columns = mem.feature_x_sample.columns
        /\ Len(mem.result.values) = Len(mem.result.index)
        /\ \A k \in DOMAIN mem.result.index :
              LET g       == mem.result.index[k]
                  vector  == RowOf(mem.feature_x_sample, g)
                  fit     == FitOf(mem, g)
                  x_grids == XGrids(vector, mem.n_x_grids)
              IN  mem.result.values[k]
                    = EssentialityRow(vector, fit, x_grids,
                                      EssentialityIndices(x_grids, fit), mem.factor)

\* A returned matrix of two rows, in the order of the fit table and not of
\* the score matrix, whose rows differ, from tables that each hold a feature
\* the other does not.
C7_Witness ==
    /\ mem.pc = "done" /\ mem.outcome = "returned"
    /\ Len(mem.result.index) = 2
    /\ mem.result.index[1] > mem.result.index[2]
    /\ mem.result.values[1] # mem.result.values[2]

(***************************************************************************)
(* C8: the grid built for each common feature has gridSize points, is      *)
(* strictly increasing, and spans from the minimum to the maximum of the   *)
(* observed (non-missing) values of the feature, also for a score row with *)
(* missing entries.                                                        *)
(***************************************************************************)
C8_GridSpansObservedValues ==
    \A k \in Processed(mem) :
        LET observed == Dropna(RowOf(mem.feature_x_sample, mem.gene_x_fit.index[k]))
            grid     == mem.x_grids[k]
        IN  /\ Len(grid) = mem.n_x_grids
            /\ \A i \in 1..(Len(grid) - 1) : FLess(grid[i], grid[i + 1])
            /\ grid[1] = FMin(observed)
            /\ grid[Len(grid)] = FMax(observed)

(***************************************************************************)
(* split_dataframe(df, n_split)                        d2.py, lines 161-187 *)
(*                                                                         *)
(* df is given by its index, a monotonic integer index first..first+N-1;   *)
(* a block is the sequence of the row labels it holds.                     *)
(***************************************************************************)
\* df.iloc[start_i: end_i, :] : a slice by position.
Iloc(index, start_i, end_i) == Slice(index, start_i, end_i)

\* df.ix[i:] on an integer index: a slice by LABEL, the rows labelled >= i
\* (the index is monotonic increasing).
IxFrom(index, i) == SelectSeq(index, LAMBDA l : l >= i)

SplitFirstLabels == {0, 1}

SplitInit ==
    /\ \E n \in 0..MaxSplitRows, first \in SplitFirstLabels,
          k \in -1..(MaxSplitRows + 1) :
          sd = [pc      |-> "check",
                df      |-> [r \in 1..n |-> first + r - 1],
                n_split |-> k,
                n       |-> 0,
                i       |-> 0,
                splits  |-> <<>>,
                outcome |-> "running"]
    /\ gamd = Idle /\ fe = Idle /\ mem = Idle /\ gtbi = Idle

\* lines 169-174: the two argument checks, then n = df.shape[0] // n_split.
SplitCheck ==
    /\ sd.pc = "check"
    /\ IF Len(sd.df) < sd.n_split \/ sd.n_split <= 0
       THEN sd' = [sd EXCEPT !.pc = "done", !.outcome = "ValueError"]
       ELSE sd' = [sd EXCEPT !.pc = "loop", !.n = Len(sd.df) \div sd.n_split]
    /\ UNCHANGED <<gamd, fe, mem, gtbi>>

\* lines 178-181: one iteration of `for i in range(n_split)`.
SplitLoop ==
    /\ sd.pc = "loop"
    /\ sd.i < sd.n_split
    /\ sd' = [sd EXCEPT
                !.splits = Append(@, Iloc(sd.df, sd.i * sd.n, (sd.i + 1) * sd.n)),
                !.i = @ + 1]
    /\ UNCHANGED <<gamd, fe, mem, gtbi>>

\* lines 183-187: the rows the loop left over become one more block.
SplitTail ==
    /\ sd.pc = "loop"
    /\ sd.i = sd.n_split
    /\ LET i == sd.n * sd.n_split
       IN  sd' = [sd EXCEPT
                    !.splits = IF i < Len(sd.df)
                               THEN Append(@, IxFrom(sd.df, i))
                               ELSE @,
                    !.pc = "done",
                    !.outcome = "returned"]
    /\ UNCHANGED <<gamd, fe, mem, gtbi>>

SplitNext == SplitCheck \/ SplitLoop \/ SplitTail

SpecSplit == SplitInit /\ [][SplitNext]_vars

(***************************************************************************)
(* C10: split_dataframe(df, n_split) with 0 < n_split <= number of rows    *)
(* returns exactly n_split blocks that partition df's rows in order; with  *)
(* n_split <= 0 or n_split > number of rows it raises ValueError.          *)
(***************************************************************************)
C10_SplitExactlyNSplitBlocks ==
    sd.pc = "done" =>
        IF 0 < sd.n_split /\ sd.n_split <= Len(sd.df)
        THEN /\ sd.outcome = "returned"
             /\ Len(sd.splits) = sd.n_split
             /\ Concat(sd.splits) = sd.df
        ELSE sd.outcome = "ValueError"

(***************************************************************************)
(* get_top_and_bottom_indices(df, column_name, threshold, max_n)           *)
(*                                                      d2.py, lines 40-67 *)
(*                                                                         *)
(* df is given by its index (the row labels 1..N) and by the column named  *)
(* column_name, a sequence of integers.  threshold is a float; max_n is an *)
(* integer, 0 standing for None as well: line 57 only takes its truth      *)
(* value, and None and 0 are both false.                                   *)
(***************************************************************************)
MaxTopRows == 4

MaxMaxN == 3

ColumnValues == {0, 1, 2}

\* Quantile thresholds (< 1, exact in binary) and ranking thresholds (>= 1).
Thresholds == {F(0), Q(1, 4), Q(1, 2)} \cup {F(k) : k \in 1..3}

FGeq(x, y) == ~IsNaN(x) /\ ~IsNaN(y) /\ x[1] * y[2] >= y[1] * x[2]

FLeq(x, y) == ~IsNaN(x) /\ ~IsNaN(y) /\ x[1] * y[2] <= y[1] * x[2]

\* The k-th smallest entry of a column, k in 1..Len(column).
KthSmallest(column, k) ==
    CHOOSE v \in Range(column) :
        /\ Cardinality({p \in DOMAIN column : column[p] < v}) < k
        /\ Cardinality({p \in DOMAIN column : column[p] <= v}) >= k

\* column.quantile(q), 0 <= q <= 1, with pandas' linear interpolation
\* between the entries at the positions around q * (N - 1); NaN for an empty
\* column.
Quantile(column, q) ==
    LET n  == Len(column)
        h  == FMul(q, F(n - 1))
        lo == h[1] \div h[2]
    IN  IF n = 0 THEN NaN
        ELSE IF lo + 2 > n THEN F(KthSmallest(column, lo + 1))
        ELSE FAdd(F(KthSmallest(column, lo + 1)),
                  FMul(FSub(h, F(lo)),
                       F(KthSmallest(column, lo + 2) - KthSmallest(column, lo + 1))))

\* df.index[mask].tolist(): the labels at the positions the mask keeps.
Masked(index, mask) ==
    LET keep == SelectSeq([k \in DOMAIN index |-> k], LAMBDA k : mask[k])
    IN  [k \in DOMAIN keep |-> index[keep[k]]]

\* index[:n], n >= 0.
IndexHead(index, n) == Slice(index, 0, n)

\* index[-n:], n >= 1: the last n labels, all of them when n > len(index).
IndexTail(index, n) ==
    Slice(index, IF n > Len(index) THEN 0 ELSE Len(index) - n, Len(index))

GtbiInit ==
    /\ \E n \in 0..MaxTopRows :
       \E column \in [1..n -> ColumnValues], threshold \in Thresholds,
          max_n \in 0..MaxMaxN :
          gtbi = [pc             |-> "quantile",
                  index          |-> [r \in 1..n |-> r],
                  column         |-> column,
                  given          |-> threshold,
                  threshold      |-> threshold,
                  max_n          |-> max_n,
                  top_and_bottom |-> <<>>,
                  outcome        |-> "running"]
    /\ sd = Idle /\ gamd = Idle /\ fe = Idle /\ mem = Idle

\* lines 50-58: `if threshold < 1:`, the rows at or above the quantile and
\* those at or below the opposite quantile; when there are more than max_n
\* of them the threshold becomes the ranking number max_n // 2.
GtbiQuantile ==
    /\ gtbi.pc = "quantile"
    /\ IF FLess(gtbi.threshold, F(1))
       THEN LET column    == gtbi.column
                top       == Quantile(column, gtbi.threshold)
                bottom    == Quantile(column, FSub(F(1), gtbi.threshold))
                is_top    == [k \in DOMAIN column |-> FGeq(F(column[k]), top)]
                is_bottom == [k \in DOMAIN column |-> FLeq(F(column[k]), bottom)]
                top_and_bottom ==
                    Masked(gtbi.index,
                           [k \in DOMAIN column |-> is_top[k] \/ is_bottom[k]])
            IN  gtbi' = [gtbi EXCEPT
                           !.top_and_bottom = top_and_bottom,
                           !.threshold =
                               IF gtbi.max_n # 0 /\ gtbi.max_n < Len(top_and_bottom)
                               THEN F(gtbi.max_n \div 2)
                               ELSE @,
                           !.pc = "ranking"]
       ELSE gtbi' = [gtbi EXCEPT !.pc = "ranking"]
    /\ UNCHANGED <<sd, gamd, fe, mem>>

\* lines 60-67: `if 1 <= threshold:`, the first and the last `threshold`
\* rows, or every row when there are fewer than 2 * threshold; the return.
GtbiRanking ==
    /\ gtbi.pc = "ranking"
    /\ LET threshold == gtbi.threshold[1]
       IN  gtbi' = [gtbi EXCEPT
                      !.top_and_bottom =
                          IF FLeq(F(1), gtbi.threshold)
                          THEN IF 2 * threshold <= Len(gtbi.index)
                               THEN IndexHead(gtbi.index, threshold)
                                      \o IndexTail(gtbi.index, threshold)
                               ELSE gtbi.index
                          ELSE @,
                      !.pc = "done",
                      !.outcome = "returned"]
    /\ UNCHANGED <<sd, gamd, fe, mem>>

GtbiNext == GtbiQuantile \/ GtbiRanking

SpecTopBottom == GtbiInit /\ [][GtbiNext]_vars

(***************************************************************************)
(* C11: get_top_and_bottom_indices called with max_n >= 1 returns at most  *)
(* max_n row indices, for every threshold: in quantile mode                *)
(* (threshold < 1) and in ranking mode (threshold >= 1).                   *)
(***************************************************************************)
C11_AtMostMaxNIndices ==
    (gtbi.pc = "done" /\ gtbi.max_n >= 1)
    => Len(gtbi.top_and_bottom) <= gtbi.max_n

====
